---- MODULE Spec2Model ----
(***************************************************************************)
(* Model of src/openai/openai.go: the OpenAI-compatibility middleware of   *)
(* the chat endpoint.  One request is followed from its arrival through    *)
(* Middleware (decode, validate, fromRequest, installation of the relay    *)
(* writer) and through the writes the backend handler performs on the      *)
(* relay (writer.Write).                                                   *)
(*                                                                         *)
(* Representation.                                                         *)
(*  - A Go pointer field (to int, float64, ...) is a sequence of length 0  *)
(*    (nil) or 1 (pointing at the value).                                  *)
(*  - A float64 is a normalised rational <<num, den>> with den > 0.        *)
(*  - A JSON object is a function from its keys to its values; a Go        *)
(*    map[string]interface{} likewise.                                     *)
(*  - A value of Go type `any` decoded from JSON carries its dynamic type  *)
(*    in the field t.                                                      *)
(*  - Bytes are records [kind, v]: kind "raw" for bytes the backend        *)
(*    handler produced, "json" for the result of json.Marshal, "text" for  *)
(*    a string literal, "sse" for the frame "data: <v>\n\n".               *)
(***************************************************************************)
EXTENDS Integers, Sequences, FiniteSets, TLC

VARIABLES
    pc,        \* position of the request: "recv", "chain", "backend", "done"
    inbound,   \* the body the client sent, kept until the backend handler starts
    body,      \* c.Request.Body
    req,       \* Middleware's local `req`
    aborted,   \* gin's c.IsAborted()
    invoked,   \* whether the backend handler (the rest of the chain) has run
    writer,    \* the relay installed as c.Writer: <<>> or <<[stream, id]>>
    status,    \* the underlying gin.ResponseWriter's Status()
    ctype,     \* the underlying Header()["Content-Type"]: <<>> or <<value>>
    wire,      \* every Write the underlying ResponseWriter received, with its outcome
    calls      \* every Write of the backend handler so far: payload, status seen,
               \* underlying writes, return value, Content-Type afterwards

vars == <<pc, inbound, body, req, aborted, invoked, writer, status, ctype, wire, calls>>

---------------------------------------------------------------------------
(* Bounds of the model *)

\* the backend handler performs at most MaxWrites writes per request
MaxWrites == 3
\* response ids are drawn from 0..MaxId (the code draws from 0..998)
MaxId == 1

(* Program constants *)

StatusOK == 200
StatusBadRequest == 400
StatusNotFound == 404
StatusInternalServerError == 500

---------------------------------------------------------------------------
(* float64 values as rationals *)

RECURSIVE GCD(_, _)
GCD(a, b) == IF b = 0 THEN a ELSE GCD(b, a % b)

Abs(n) == IF n < 0 THEN -n ELSE n

Rat(n, d) ==
    LET g == GCD(Abs(n), Abs(d))
        s == IF d < 0 THEN -1 ELSE 1
    IN  <<(s * n) \div g, (s * d) \div g>>

RatAdd(a, b) == Rat(a[1] * b[2] + b[1] * a[2], a[2] * b[2])

RatDiv(a, b) == Rat(a[1] * b[2], a[2] * b[1])

---------------------------------------------------------------------------
(* JSON values of dynamic type (Go `any`) *)

JNull == [t |-> "nil", s |-> "", n |-> 0, a |-> <<>>]
JStr(x) == [t |-> "string", s |-> x, n |-> 0, a |-> <<>>]
JNum(x) == [t |-> "float64", s |-> "", n |-> x, a |-> <<>>]
JArr(x) == [t |-> "[]interface{}", s |-> "", n |-> 0, a |-> x]

EmptyObject == [k \in {} |-> 0]

\* o with o[k] = v, as the Go statement m[k] = v leaves the map m
Put(o, k, v) == [x \in DOMAIN o \cup {k} |-> IF x = k THEN v ELSE o[x]]

---------------------------------------------------------------------------
(* The request bodies a client may send *)

Msg(role, content) == [Role |-> role, Content |-> content]

MessageLists ==
    { <<>>,
      <<Msg("user", "hello")>>,
      <<Msg("system", "be brief"), Msg("user", "hello")>> }

StopValues ==
    { JStr("foo"),
      JArr(<<JStr("foo"), JNum(7), JStr("bar")>>),
      JArr(<<JNum(7)>>),
      JNum(7) }

Temperatures == { Rat(7, 10) }
Penalties == { Rat(2, 1), Rat(-2, 1) }
Seeds == { 42 }
MaxTokensValues == { 16 }
TopPs == { Rat(9, 10) }
ResponseFormats == { [Type |-> "json_object"], [Type |-> "text"] }

\* a key is absent, or present with one of vals
Pick(k, vals) == {EmptyObject} \cup {k :> v : v \in vals}

Objects ==
    { m @@ st @@ sd @@ sp @@ t @@ fp @@ pp @@ ppp @@ mt @@ tp @@ rf @@ ("model" :> "llama2") :
        m \in Pick("messages", MessageLists),
        st \in Pick("stream", {TRUE}),
        sd \in Pick("seed", Seeds),
        sp \in Pick("stop", StopValues),
        t \in Pick("temperature", Temperatures),
        fp \in Pick("frequency_penalty", Penalties),
        pp \in Pick("presence_penalty", Penalties),
        ppp \in Pick("presence_penalty_penalty", {Rat(1, 1)}),
        mt \in Pick("max_tokens", MaxTokensValues),
        tp \in Pick("top_p", TopPs),
        rf \in Pick("response_format", ResponseFormats) }

\* bytes that are not JSON at all
MalformedBody == [kind |-> "malformed", fields |-> EmptyObject]
\* valid JSON whose "messages" is a string: it does not decode into Request
MistypedBody == [kind |-> "mistyped", fields |-> EmptyObject]

Bodies == {MalformedBody, MistypedBody} \cup {[kind |-> "object", fields |-> f] : f \in Objects}

---------------------------------------------------------------------------
(* type Request and its decoding by c.ShouldBindJSON *)

\* the JSON key of each field of Request (its struct tag; Model has none and
\* is matched by its name)
JsonTag(field) ==
    CASE field = "Model" -> "model"
      [] field = "Messages" -> "messages"
      [] field = "Stream" -> "stream"
      [] field = "MaxTokens" -> "max_tokens"
      [] field = "Seed" -> "seed"
      [] field = "Stop" -> "stop"
      [] field = "Temperature" -> "temperature"
      [] field = "FrequencyPenalty" -> "frequency_penalty"
      [] field = "PresencePenalty" -> "presence_penalty_penalty"
      [] field = "TopP" -> "top_p"
      [] field = "ResponseFormat" -> "response_format"

\* a value field: the key's value, or the zero value when the key is absent
ValueField(f, field, zero) == IF JsonTag(field) \in DOMAIN f THEN f[JsonTag(field)] ELSE zero

\* a pointer field: nil when the key is absent
PointerField(f, field) == IF JsonTag(field) \in DOMAIN f THEN <<f[JsonTag(field)]>> ELSE <<>>

DecodeRequest(f) ==
    [ Model |-> ValueField(f, "Model", ""),
      Messages |-> ValueField(f, "Messages", <<>>),
      Stream |-> ValueField(f, "Stream", FALSE),
      MaxTokens |-> PointerField(f, "MaxTokens"),
      Seed |-> PointerField(f, "Seed"),
      Stop |-> ValueField(f, "Stop", JNull),
      Temperature |-> PointerField(f, "Temperature"),
      FrequencyPenalty |-> PointerField(f, "FrequencyPenalty"),
      PresencePenalty |-> PointerField(f, "PresencePenalty"),
      TopP |-> PointerField(f, "TopP"),
      ResponseFormat |-> PointerField(f, "ResponseFormat") ]

\* var req Request
ZeroRequest == DecodeRequest(EmptyObject)

\* err.Error() of a failed bind
BindError(b) ==
    IF b.kind = "malformed"
    THEN "invalid character 'x' looking for beginning of value"
    ELSE "json: cannot unmarshal string into Go struct field Request.messages of type []openai.Message"

\* c.ShouldBindJSON(&req): the error (nil: <<>>) and req afterwards
ShouldBindJSON(b) ==
    IF b.kind = "object"
    THEN [err |-> <<>>, req |-> DecodeRequest(b.fields)]
    ELSE [err |-> <<BindError(b)>>, req |-> ZeroRequest]

---------------------------------------------------------------------------
(* NewError *)

NewError(code, message) ==
    LET etype == CASE code = 400 -> "invalid_request_error"
                   [] code = 404 -> "not_found_error"
                   [] OTHER -> "api_error"
    IN  [Error |-> [Message |-> message, Type |-> etype, Param |-> <<>>, Code |-> <<>>]]

---------------------------------------------------------------------------
(* fromRequest *)

\* Stops without the type test: every element is taken for a string
RECURSIVE StopsUnfiltered(_)
StopsUnfiltered(stop) ==
    IF stop = <<>> THEN <<>> ELSE <<Head(stop).s>> \o StopsUnfiltered(Tail(stop))

\* the string-typed elements of a []interface{}, in order
RECURSIVE Stops(_)
Stops(stop) ==
    IF stop = <<>> THEN <<>>
    ELSE IF Head(stop).t = "string"
         THEN <<Head(stop).s>> \o Stops(Tail(stop))
         ELSE Stops(Tail(stop))

\* switch stop := r.Stop.(type)
StopOption(options, r) ==
    CASE r.Stop.t = "string" -> Put(options, "stop", <<r.Stop.s>>)
      [] r.Stop.t = "[]interface{}" -> Put(options, "stop", Stops(r.Stop.a))
      [] OTHER -> options

MaxTokensOption(options, r) ==
    IF r.MaxTokens # <<>> THEN Put(options, "num_predict", r.MaxTokens[1]) ELSE options

TemperatureOption(options, r) ==
    IF r.Temperature # <<>> THEN Put(options, "temperature", r.Temperature[1]) ELSE options

\* SeedOption without the override of the temperature
SeedOptionOnly(options, r) ==
    IF r.Seed # <<>> THEN Put(options, "seed", r.Seed[1]) ELSE options

SeedOption(options, r) ==
    IF r.Seed # <<>>
    THEN Put(Put(options, "seed", r.Seed[1]), "temperature", Rat(0, 1))
    ELSE options

\* (v + 2.0) / 4.0
Rescale(v) == RatDiv(RatAdd(v, Rat(2, 1)), Rat(4, 1))

FrequencyPenaltyOption(options, r) ==
    IF r.FrequencyPenalty # <<>>
    THEN Put(options, "frequency_penalty", Rescale(r.FrequencyPenalty[1]))
    ELSE options

PresencePenaltyOption(options, r) ==
    IF r.PresencePenalty # <<>>
    THEN Put(options, "presence_penalty", Rescale(r.PresencePenalty[1]))
    ELSE options

TopPOption(options, r) ==
    IF r.TopP # <<>> THEN Put(options, "top_p", r.TopP[1]) ELSE options

Format(r) ==
    IF r.ResponseFormat # <<>> /\ r.ResponseFormat[1].Type = "json_object" THEN "json" ELSE ""

fromRequest(r) ==
    LET messages == [i \in 1..Len(r.Messages) |->
                        [Role |-> r.Messages[i].Role, Content |-> r.Messages[i].Content]]
        o1 == StopOption(EmptyObject, r)
        o2 == MaxTokensOption(o1, r)
        o3 == TemperatureOption(o2, r)
        o4 == SeedOption(o3, r)
        o5 == FrequencyPenaltyOption(o4, r)
        o6 == PresencePenaltyOption(o5, r)
        o7 == TopPOption(o6, r)
    IN  [ Model |-> r.Model,
          Messages |-> messages,
          Format |-> Format(r),
          Options |-> o7,
          Stream |-> r.Stream ]

---------------------------------------------------------------------------
(* toCompletion, toChunk *)

\* func(done bool) *string
FinishReason(done) == IF done THEN <<"stop">> ELSE <<>>

\* time.Time.Unix(): the seconds, the nanoseconds dropped
Unix(t) == t.sec

\* toCompletion with the prompt tokens left out of the total
toCompletionEvalTotal(id, r) ==
    [ Id |-> id,
      Object |-> "chat.completion",
      Created |-> Unix(r.CreatedAt),
      Model |-> r.Model,
      SystemFingerprint |-> "fp_ollama",
      Choices |-> << [ Index |-> 0,
                       Message |-> [Role |-> r.Message.Role, Content |-> r.Message.Content],
                       FinishReason |-> FinishReason(r.Done) ] >>,
      Usage |-> [ PromptTokens |-> r.PromptEvalCount,
                  CompletionTokens |-> r.EvalCount,
                  TotalTokens |-> r.EvalCount ] ]

toCompletion(id, r) ==
    [ Id |-> id,
      Object |-> "chat.completion",
      Created |-> Unix(r.CreatedAt),
      Model |-> r.Model,
      SystemFingerprint |-> "fp_ollama",
      Choices |-> << [ Index |-> 0,
                       Message |-> [Role |-> r.Message.Role, Content |-> r.Message.Content],
                       FinishReason |-> FinishReason(r.Done) ] >>,
      Usage |-> [ PromptTokens |-> r.PromptEvalCount,
                  CompletionTokens |-> r.EvalCount,
                  TotalTokens |-> r.PromptEvalCount + r.EvalCount ] ]

\* toChunk with an id of its own for every chunk
toChunkFreshId(id, r, now) ==
    [ Id |-> <<"chatcmpl-", now % 999>>,
      Object |-> "chat.completion.chunk",
      Created |-> now,
      Model |-> r.Model,
      SystemFingerprint |-> "fp_ollama",
      Choices |-> << [ Index |-> 0,
                       Delta |-> [Role |-> "assistant", Content |-> r.Message.Content],
                       FinishReason |-> FinishReason(r.Done) ] >> ]

toChunk(id, r, now) ==
    [ Id |-> id,
      Object |-> "chat.completion.chunk",
      Created |-> now,
      Model |-> r.Model,
      SystemFingerprint |-> "fp_ollama",
      Choices |-> << [ Index |-> 0,
                       Delta |-> [Role |-> "assistant", Content |-> r.Message.Content],
                       FinishReason |-> FinishReason(r.Done) ] >> ]

---------------------------------------------------------------------------
(* The bytes the backend handler may write, each with what json.Unmarshal    *)
(* makes of it as an api.ChatResponse and as an api.StatusError (<<>>: the   *)
(* decoding fails)                                                           *)

ChatResponse(role, content, done, p, c) ==
    [ Model |-> "llama2",
      CreatedAt |-> [sec |-> 1700000000, nsec |-> 250],
      Message |-> [Role |-> role, Content |-> content],
      Done |-> done,
      PromptEvalCount |-> p,
      EvalCount |-> c ]

\* what a JSON object without any of the type's keys decodes to
ZeroChatResponse ==
    [ Model |-> "",
      CreatedAt |-> [sec |-> 0, nsec |-> 0],
      Message |-> [Role |-> "", Content |-> ""],
      Done |-> FALSE,
      PromptEvalCount |-> 0,
      EvalCount |-> 0 ]

StatusError(msg) == [StatusCode |-> 0, Status |-> "", ErrorMessage |-> msg]

Raw(name, chat, serr) == [kind |-> "raw", v |-> [name |-> name, chat |-> chat, serr |-> serr]]

Payloads ==
    { \* not JSON
      Raw("garbage", <<>>, <<>>),
      \* {"error":"model 'x' not found"}
      Raw("error", <<ZeroChatResponse>>, <<StatusError("model 'x' not found")>>),
      \* a fragment of a streamed answer
      Raw("fragment", <<ChatResponse("assistant", "Hel", FALSE, 0, 0)>>, <<StatusError("")>>),
      \* the last fragment, or the whole answer
      Raw("final", <<ChatResponse("assistant", "lo", TRUE, 5, 10)>>, <<StatusError("")>>),
      \* {"message":{"role":"tool","content":"x"},"done":true,"eval_count":3,"error":{}}
      Raw("chat-only", <<ChatResponse("tool", "x", TRUE, 0, 3)>>, <<>>),
      \* {"error":"bad request","done":"yes"}
      Raw("error-only", <<>>, <<StatusError("bad request")>>) }

\* json.Unmarshal(data, &chatResponse)
UnmarshalChatResponse(data) == data.v.chat

\* json.Unmarshal(data, &serr)
UnmarshalStatusError(data) == data.v.serr

\* serr.Error()
StatusErrorError(serr) == serr.ErrorMessage

\* json.Marshal(v)
Marshal(v) == [kind |-> "json", v |-> v]

\* the error of json.Marshal(v): nil for every value built here (strings,
\* integers, finite floats, slices and maps of them)
MarshalError(v) == <<>>

\* fmt.Sprintf("data: %s\n\n", d)
SSE(d) == [kind |-> "sse", v |-> d]

\* []byte("data: [DONE]\n\n")
DoneFrame == SSE([kind |-> "text", v |-> "[DONE]"])

\* time.Now().Unix()
Clock == { 1700000007 }

---------------------------------------------------------------------------
(* The underlying gin.ResponseWriter *)

Statuses == { StatusOK, StatusBadRequest, StatusNotFound, StatusInternalServerError }

\* a byte count: all of b, or the part of b written before a failure
Count(b, all) == [of |-> b, all |-> all]

\* the count 0
Zero == Count([kind |-> "text", v |-> ""], TRUE)

\* w.ResponseWriter.Write(b): (n, err); ok is whether the connection takes b
UnderlyingWrite(b, ok) ==
    [n |-> Count(b, ok), err |-> IF ok THEN <<>> ELSE <<"write failed">>]

---------------------------------------------------------------------------
(* writer.Write *)

\* What one call w.Write(data) does when Status() is st: the writes it makes
\* on the underlying ResponseWriter (ok1, ok2: whether the first and the
\* second of them succeed), the Content-Type it sets (<<>>: none) and what
\* it returns.
Result(attempts, ct, ret) == [attempts |-> attempts, ctype |-> ct, ret |-> ret]

\* return len(data), nil
Swallow(data) == Result(<<>>, <<>>, [n |-> Count(data, TRUE), err |-> <<>>])

\* WriteError that hands an unparseable payload on to the client
WriteErrorPassThrough(data, ok1) ==
    LET serr == UnmarshalStatusError(data)
    IN  IF serr # <<>>
        THEN LET e == NewError(StatusInternalServerError, StatusErrorError(serr[1]))
             IN  Result(<<[b |-> Marshal(e), ok |-> ok1]>>,
                        <<"application/json">>,
                        UnderlyingWrite(Marshal(e), ok1))
        ELSE Result(<<[b |-> data, ok |-> ok1]>>, <<>>, UnderlyingWrite(data, ok1))

\* the branch for a status other than OK
WriteError(data, ok1) ==
    LET serr == UnmarshalStatusError(data)
    IN  IF serr # <<>>
        THEN LET e == NewError(StatusInternalServerError, StatusErrorError(serr[1]))
             IN  IF MarshalError(e) = <<>>
                 THEN Result(<<[b |-> Marshal(e), ok |-> ok1]>>,
                             <<"application/json">>,
                             UnderlyingWrite(Marshal(e), ok1))
                 ELSE Result(<<>>, <<"application/json">>, Swallow(data).ret)
        ELSE Swallow(data)

\* WriteChunk that ends every fragment with the DONE frame
WriteChunkAlwaysDone(w, chatResponse, data, ok1, ok2, now) ==
    LET frame == SSE(Marshal(toChunk(w.id, chatResponse, now)))
    IN  IF ~ok1
        THEN Result(<<[b |-> frame, ok |-> FALSE]>>,
                    <<"text/event-stream">>,
                    [n |-> Zero, err |-> UnderlyingWrite(frame, FALSE).err])
        ELSE Result(<<[b |-> frame, ok |-> TRUE], [b |-> DoneFrame, ok |-> ok2]>>,
                    <<"text/event-stream">>,
                    UnderlyingWrite(DoneFrame, ok2))

\* WriteChunk that does not look at the error of the data frame's write
WriteChunkIgnoreError(w, chatResponse, data, ok1, ok2, now) ==
    LET frame == SSE(Marshal(toChunk(w.id, chatResponse, now)))
    IN  IF chatResponse.Done
        THEN Result(<<[b |-> frame, ok |-> ok1], [b |-> DoneFrame, ok |-> ok2]>>,
                    <<"text/event-stream">>,
                    UnderlyingWrite(DoneFrame, ok2))
        ELSE Result(<<[b |-> frame, ok |-> ok1]>>,
                    <<"text/event-stream">>,
                    [n |-> Count(data, TRUE), err |-> <<>>])

\* the chat chunk branch
WriteChunk(w, chatResponse, data, ok1, ok2, now) ==
    LET c == toChunk(w.id, chatResponse, now)
        frame == SSE(Marshal(c))
    IN  IF MarshalError(c) = <<>>
        THEN IF ~ok1
             THEN Result(<<[b |-> frame, ok |-> FALSE]>>,
                         <<"text/event-stream">>,
                         [n |-> Zero, err |-> UnderlyingWrite(frame, FALSE).err])
             ELSE IF chatResponse.Done
                  THEN Result(<<[b |-> frame, ok |-> TRUE], [b |-> DoneFrame, ok |-> ok2]>>,
                              <<"text/event-stream">>,
                              UnderlyingWrite(DoneFrame, ok2))
                  ELSE Result(<<[b |-> frame, ok |-> TRUE]>>,
                              <<"text/event-stream">>,
                              Swallow(data).ret)
        ELSE Swallow(data)

\* the chat completion branch
WriteCompletion(w, chatResponse, data, ok1, ok2, now) ==
    LET c == toCompletion(w.id, chatResponse)
    IN  IF MarshalError(c) = <<>>
        THEN Result(<<[b |-> Marshal(c), ok |-> ok1]>>,
                    <<"application/json">>,
                    UnderlyingWrite(Marshal(c), ok1))
        ELSE WriteChunk(w, chatResponse, data, ok1, ok2, now)

\* WriteResponse that hands an unparseable payload on to the client
WriteResponsePassThrough(w, data, ok1, ok2, now) ==
    LET chatResponse == UnmarshalChatResponse(data)
    IN  IF chatResponse # <<>>
        THEN IF ~w.stream
             THEN WriteCompletion(w, chatResponse[1], data, ok1, ok2, now)
             ELSE WriteChunk(w, chatResponse[1], data, ok1, ok2, now)
        ELSE Result(<<[b |-> data, ok |-> ok1]>>, <<>>, UnderlyingWrite(data, ok1))

\* the branch for status OK
WriteResponse(w, data, ok1, ok2, now) ==
    LET chatResponse == UnmarshalChatResponse(data)
    IN  IF chatResponse # <<>>
        THEN IF ~w.stream
             THEN WriteCompletion(w, chatResponse[1], data, ok1, ok2, now)
             ELSE WriteChunk(w, chatResponse[1], data, ok1, ok2, now)
        ELSE Swallow(data)

WriterWrite(w, st, data, ok1, ok2, now) ==
    IF st # StatusOK
    THEN WriteError(data, ok1)
    ELSE WriteResponse(w, data, ok1, ok2, now)

---------------------------------------------------------------------------
(* The request's life *)

Init ==
    /\ pc = "recv"
    /\ inbound \in Bodies
    /\ body = inbound
    /\ req = ZeroRequest
    /\ aborted = FALSE
    /\ invoked = FALSE
    /\ writer = <<>>
    /\ status = StatusOK
    /\ ctype = <<>>
    /\ wire = <<>>
    /\ calls = <<>>

\* c.JSON(code, obj) in the place of c.AbortWithStatusJSON: the chain goes on
JSONWithoutAbort(code, obj, ok) ==
    /\ aborted' = aborted
    /\ status' = code
    /\ ctype' = <<"application/json; charset=utf-8">>
    /\ wire' = Append(wire, [b |-> Marshal(obj), ok |-> ok])

\* c.AbortWithStatusJSON(code, obj): the status, the JSON body on c.Writer
\* (the relay is not installed yet) and the abort of the handler chain
AbortWithStatusJSON(code, obj, ok) ==
    /\ aborted' = TRUE
    /\ status' = code
    /\ ctype' = <<"application/json; charset=utf-8">>
    /\ wire' = Append(wire, [b |-> Marshal(obj), ok |-> ok])

\* w := &writer{...}; c.Writer = w
NewWriter(r, n) == [stream |-> r.Stream, id |-> <<"chatcmpl-", n>>]

\* Middleware's handler, up to its call of c.Next()
Middleware ==
    /\ pc = "recv"
    /\ pc' = "chain"
    /\ \E n \in 0..MaxId, ok \in BOOLEAN :
         LET bind == ShouldBindJSON(body)
             native == fromRequest(bind.req)
         IN  /\ req' = bind.req
             /\ IF bind.err # <<>>
                THEN /\ AbortWithStatusJSON(StatusBadRequest,
                                            NewError(StatusBadRequest, bind.err[1]), ok)
                     /\ UNCHANGED <<body, writer>>
                ELSE IF Len(bind.req.Messages) = 0
                THEN /\ AbortWithStatusJSON(StatusBadRequest,
                                            NewError(StatusBadRequest, "[] is too short - 'messages'"), ok)
                     /\ UNCHANGED <<body, writer>>
                ELSE IF MarshalError(native) # <<>>
                THEN /\ AbortWithStatusJSON(StatusInternalServerError,
                                            NewError(StatusInternalServerError, MarshalError(native)[1]), ok)
                     /\ UNCHANGED <<body, writer>>
                ELSE /\ body' = Marshal(native)
                     /\ writer' = <<NewWriter(bind.req, n)>>
                     /\ UNCHANGED <<aborted, status, ctype, wire>>
    /\ UNCHANGED <<inbound, invoked, calls>>

\* the body as the backend handler leaves it: read to its end
Consumed == [kind |-> "consumed", v |-> <<>>]

\* c.Next(), or gin's own walk of the chain after Middleware returned: the
\* backend handler starts unless the chain was aborted.  It reads the body;
\* Middleware's locals are not read again and are forgotten here.
BackendStart ==
    /\ pc = "chain"
    /\ ~aborted
    /\ pc' = "backend"
    /\ invoked' = TRUE
    /\ body' = Consumed
    /\ inbound' = Consumed
    /\ req' = ZeroRequest
    /\ UNCHANGED <<aborted, writer, status, ctype, wire, calls>>

\* the chain was aborted: no further handler runs
ChainAborted ==
    /\ pc = "chain"
    /\ aborted
    /\ pc' = "done"
    /\ UNCHANGED <<inbound, body, req, aborted, invoked, writer, status, ctype, wire, calls>>

\* the backend handler sets the response status (c.Status, c.JSON); gin
\* keeps the first status once the header is written
BackendSetStatus ==
    /\ pc = "backend"
    /\ wire = <<>>
    /\ \E code \in Statuses \ {status} : status' = code
    /\ UNCHANGED <<pc, inbound, body, req, aborted, invoked, writer, ctype, wire, calls>>

\* one write of the backend handler on c.Writer
BackendWrite ==
    /\ pc = "backend"
    /\ Len(calls) < MaxWrites
    /\ \E data \in Payloads, ok1 \in BOOLEAN, ok2 \in BOOLEAN, now \in Clock :
         LET r == IF writer # <<>>
                  THEN WriterWrite(writer[1], status, data, ok1, ok2, now)
                  ELSE Result(<<[b |-> data, ok |-> ok1]>>, <<>>, UnderlyingWrite(data, ok1))
         IN  /\ wire' = wire \o r.attempts
             /\ ctype' = IF r.ctype # <<>> THEN r.ctype ELSE ctype
             /\ calls' = Append(calls, [ data |-> data, status |-> status,
                                         attempts |-> r.attempts, ret |-> r.ret,
                                         ctype |-> ctype' ])
    /\ UNCHANGED <<pc, inbound, body, req, aborted, invoked, writer, status>>

\* the backend handler returns
BackendReturn ==
    /\ pc = "backend"
    /\ pc' = "done"
    /\ UNCHANGED <<inbound, body, req, aborted, invoked, writer, status, ctype, wire, calls>>

Next ==
    \/ Middleware
    \/ BackendStart
    \/ ChainAborted
    \/ BackendSetStatus
    \/ BackendWrite
    \/ BackendReturn

Spec == Init /\ [][Next]_vars

---------------------------------------------------------------------------
(* Vocabulary of the properties *)

\* the relay is installed and asked for a streamed answer
Streaming == writer # <<>> /\ writer[1].stream
NonStreaming == writer # <<>> /\ ~writer[1].stream

Parses(c) == UnmarshalChatResponse(c.data) # <<>>
Fragment(c) == UnmarshalChatResponse(c.data)[1]

IsJSONOf(b, object) == b.kind = "json" /\ b.v.Object = object

\* b is the frame "data: <chunk>\n\n"
IsDataFrame(b) == b.kind = "sse" /\ b.v.kind = "json" /\ b.v.v.Object = "chat.completion.chunk"

\* b is the frame "data: [DONE]\n\n"
IsDoneFrame(b) == b.kind = "sse" /\ b.v.kind = "text" /\ b.v.v = "[DONE]"

IsCompletion(b) == b.kind = "json" /\ "Object" \in DOMAIN b.v /\ b.v.Object = "chat.completion"

IsErrorEnvelope(b) == b.kind = "json" /\ "Error" \in DOMAIN b.v

\* b is the data frame of fragment r
IsDataFrameOf(b, r) ==
    /\ IsDataFrame(b)
    /\ b.v.v.Model = r.Model
    /\ Len(b.v.v.Choices) = 1
    /\ b.v.v.Choices[1].Index = 0
    /\ b.v.v.Choices[1].Delta = [Role |-> "assistant", Content |-> r.Message.Content]
    /\ b.v.v.Choices[1].FinishReason = IF r.Done THEN <<"stop">> ELSE <<>>

\* the inbound body is a JSON object that decodes, with at least one message
ValidInbound ==
    /\ inbound.kind = "object"
    /\ "messages" \in DOMAIN inbound.fields
    /\ inbound.fields["messages"] # <<>>

\* Middleware has run on a valid body and the backend has not started: the
\* translated request is the body
Translated == pc = "chain" /\ ~aborted

Options == body.v.Options

---------------------------------------------------------------------------
(* C1 *)

\* ws is the relay of the fragments cs: one data frame per fragment, in
\* order, each done fragment's frame followed at once by the DONE frame
RECURSIVE RelayOf(_, _)
RelayOf(cs, ws) ==
    IF cs = <<>> THEN ws = <<>>
    ELSE /\ ws # <<>>
         /\ IsDataFrameOf(ws[1].b, Fragment(Head(cs)))
         /\ IF Fragment(Head(cs)).Done
            THEN /\ Len(ws) >= 2
                 /\ IsDoneFrame(ws[2].b)
                 /\ RelayOf(Tail(cs), SubSeq(ws, 3, Len(ws)))
            ELSE RelayOf(Tail(cs), Tail(ws))

\* the writes so far were all made under status OK, all parse as chat
\* fragments, and the connection took every underlying write
AllFragments ==
    /\ \A i \in 1..Len(calls) : calls[i].status = StatusOK /\ Parses(calls[i])
    /\ \A i \in 1..Len(wire) : wire[i].ok

\* C1: streaming, status OK: a sequence of writes that each parse as a chat
\* fragment reaches the underlying channel (on a connection that takes every
\* write) as one SSE data frame per fragment, in write order, with the frame
\* "data: [DONE]" right after the data frame of each fragment with done=true
\* and nowhere else; each call sets Content-Type text/event-stream.
C1_StreamRelay ==
    (Streaming /\ AllFragments) =>
        /\ RelayOf(calls, wire)
        /\ \A i \in 1..Len(calls) : calls[i].ctype = <<"text/event-stream">>

\* done=false then done=true: two data frames, then DONE as the last thing
C1_Witness ==
    /\ Streaming /\ AllFragments
    /\ Len(calls) = 2
    /\ ~Fragment(calls[1]).Done
    /\ Fragment(calls[2]).Done
    /\ Len(wire) = 3
    /\ IsDataFrame(wire[1].b) /\ IsDataFrame(wire[2].b) /\ IsDoneFrame(wire[3].b)

---------------------------------------------------------------------------
(* C2 *)

\* a write of the relay under status OK whose payload is no chat response
Miss(c) == writer # <<>> /\ c.status = StatusOK /\ ~Parses(c)

\* C2 as claimed: under status OK a payload that does not parse as a chat
\* response is passed through: the underlying channel receives exactly the
\* bytes of the write.
C2_PassThrough ==
    \A i \in 1..Len(calls) :
        Miss(calls[i]) =>
            /\ Len(calls[i].attempts) = 1
            /\ calls[i].attempts[1].b = calls[i].data

\* C2 amended: under status OK a payload that does not parse as a chat
\* response is swallowed, streaming or not: nothing is written on the
\* underlying channel, no header is set, and Write returns the byte count of
\* the payload with no error.
C2_Swallowed ==
    \A i \in 1..Len(calls) :
        Miss(calls[i]) =>
            /\ calls[i].attempts = <<>>
            /\ calls[i].ret = [n |-> Count(calls[i].data, TRUE), err |-> <<>>]
            /\ calls[i].ctype = IF i = 1 THEN <<>> ELSE calls[i - 1].ctype

C2_Witness ==
    /\ Streaming
    /\ Len(calls) = 2
    /\ Parses(calls[1]) /\ calls[1].status = StatusOK
    /\ Miss(calls[2])
    /\ Len(wire) = 1

---------------------------------------------------------------------------
(* C3 *)

\* C3: under a status other than OK, streaming or not, a write whose payload
\* parses as the native error sets Content-Type application/json and puts
\* exactly one error envelope of type "api_error" carrying the native
\* error's message on the underlying channel; a write whose payload does
\* not parse puts nothing there and returns the payload's byte count and no
\* error.  Nothing else (completion, data frame, DONE) is written.
C3_ErrorRelay ==
    \A i \in 1..Len(calls) :
        (writer # <<>> /\ calls[i].status # StatusOK) =>
            IF UnmarshalStatusError(calls[i].data) # <<>>
            THEN /\ Len(calls[i].attempts) = 1
                 /\ IsErrorEnvelope(calls[i].attempts[1].b)
                 /\ calls[i].attempts[1].b.v.Error.Type = "api_error"
                 /\ calls[i].attempts[1].b.v.Error.Message =
                        StatusErrorError(UnmarshalStatusError(calls[i].data)[1])
                 /\ calls[i].ctype = <<"application/json">>
            ELSE /\ calls[i].attempts = <<>>
                 /\ calls[i].ret = [n |-> Count(calls[i].data, TRUE), err |-> <<>>]

\* both cases in one response: an unparseable payload, then a native error
C3_Witness ==
    /\ Streaming
    /\ Len(calls) = 2
    /\ calls[1].status = StatusNotFound /\ calls[2].status = StatusNotFound
    /\ UnmarshalStatusError(calls[1].data) = <<>>
    /\ calls[1].attempts = <<>>
    /\ UnmarshalStatusError(calls[2].data) # <<>>
    /\ Len(wire) = 1
    /\ wire[1].b.v.Error.Message = "model 'x' not found"

---------------------------------------------------------------------------
(* C4 *)

\* C4: not streaming, status OK: a write that parses as a chat response with
\* prompt-token count p and completion-token count c puts exactly one
\* completion object on the underlying channel (Content-Type
\* application/json, no SSE frame, no DONE frame) whose usage is
\* {p, c, p + c} and whose finish_reason is "stop" if done and null if not.
C4_Completion ==
    \A i \in 1..Len(calls) :
        (NonStreaming /\ calls[i].status = StatusOK /\ Parses(calls[i])) =>
            /\ Len(calls[i].attempts) = 1
            /\ IsCompletion(calls[i].attempts[1].b)
            /\ calls[i].attempts[1].b.v.Usage =
                   [ PromptTokens |-> Fragment(calls[i]).PromptEvalCount,
                     CompletionTokens |-> Fragment(calls[i]).EvalCount,
                     TotalTokens |-> Fragment(calls[i]).PromptEvalCount
                                        + Fragment(calls[i]).EvalCount ]
            /\ Len(calls[i].attempts[1].b.v.Choices) = 1
            /\ calls[i].attempts[1].b.v.Choices[1].FinishReason =
                   IF Fragment(calls[i]).Done THEN <<"stop">> ELSE <<>>
            /\ calls[i].ctype = <<"application/json">>

\* done=true, p=5, c=10: total_tokens 15, finish_reason "stop"
C4_Witness ==
    /\ NonStreaming
    /\ Len(calls) = 1
    /\ calls[1].status = StatusOK
    /\ Parses(calls[1])
    /\ Fragment(calls[1]).Done
    /\ Fragment(calls[1]).PromptEvalCount = 5
    /\ Fragment(calls[1]).EvalCount = 10
    /\ Len(wire) = 1
    /\ wire[1].b.v.Usage.TotalTokens = 15
    /\ wire[1].b.v.Choices[1].FinishReason = <<"stop">>

---------------------------------------------------------------------------
(* C5 *)

\* C5: a body that is malformed JSON or does not decode, or whose messages
\* are missing or empty, is answered with status 400 and an error envelope
\* of type "invalid_request_error" (message "[] is too short - 'messages'"
\* for missing or empty messages) and the chain is aborted: the backend
\* handler never runs, the body is not replaced by a translated request and
\* no relay is installed.  (The backend handler runs only behind an
\* installed relay, on a chain that was not aborted.)
C5_ClientError ==
    /\ invoked => (writer # <<>> /\ ~aborted)
    /\ (pc # "recv" /\ inbound.kind # "consumed" /\ ~ValidInbound) =>
          /\ status = StatusBadRequest
          /\ Len(wire) = 1
          /\ IsErrorEnvelope(wire[1].b)
          /\ wire[1].b.v.Error.Type = "invalid_request_error"
          /\ inbound.kind = "object" => wire[1].b.v.Error.Message = "[] is too short - 'messages'"
          /\ aborted
          /\ ~invoked
          /\ calls = <<>>
          /\ body = inbound
          /\ writer = <<>>

\* an empty messages array, the request over
C5_Witness ==
    /\ pc = "done"
    /\ inbound.kind = "object"
    /\ "messages" \in DOMAIN inbound.fields
    /\ inbound.fields["messages"] = <<>>
    /\ status = StatusBadRequest
    /\ ~invoked

---------------------------------------------------------------------------
(* C6 *)

\* C6: when the request supplies a seed, the native options hold that seed
\* and temperature exactly 0, whatever temperature was supplied or none;
\* without a seed, temperature is the supplied one, and absent if none was
\* supplied.
C6_SeedForcesTemperature ==
    Translated =>
        IF "seed" \in DOMAIN inbound.fields
        THEN /\ "seed" \in DOMAIN Options
             /\ Options["seed"] = inbound.fields["seed"]
             /\ "temperature" \in DOMAIN Options
             /\ Options["temperature"] = <<0, 1>>
        ELSE IF "temperature" \in DOMAIN inbound.fields
             THEN /\ "temperature" \in DOMAIN Options
                  /\ Options["temperature"] = inbound.fields["temperature"]
             ELSE "temperature" \notin DOMAIN Options

\* seed and temperature 0.7 supplied: temperature 0
C6_Witness ==
    /\ Translated
    /\ "seed" \in DOMAIN inbound.fields
    /\ "temperature" \in DOMAIN inbound.fields
    /\ inbound.fields["temperature"] = <<7, 10>>
    /\ Options["temperature"] = <<0, 1>>
    /\ Options["seed"] = 42

---------------------------------------------------------------------------
(* C7 *)

IsStringValue(e) == e.t = "string"

\* C7: stop a single string s gives option stop = [s]; stop a sequence gives
\* its string elements in their order, the others dropped; no stop field
\* gives no "stop" key.
C7_Stop ==
    Translated =>
        IF "stop" \notin DOMAIN inbound.fields
        THEN "stop" \notin DOMAIN Options
        ELSE LET stop == inbound.fields["stop"]
             IN  /\ stop.t = "string" =>
                        "stop" \in DOMAIN Options /\ Options["stop"] = <<stop.s>>
                 /\ stop.t = "[]interface{}" =>
                        /\ "stop" \in DOMAIN Options
                        /\ LET strings == SelectSeq(stop.a, IsStringValue)
                           IN  Options["stop"] = [i \in 1..Len(strings) |-> strings[i].s]

\* ["foo", 7, "bar"] gives ["foo", "bar"]
C7_Witness ==
    /\ Translated
    /\ "stop" \in DOMAIN inbound.fields
    /\ inbound.fields["stop"].t = "[]interface{}"
    /\ Len(inbound.fields["stop"].a) = 3
    /\ inbound.fields["stop"].a[2].t = "float64"
    /\ Options["stop"] = <<"foo", "bar">>

---------------------------------------------------------------------------
(* C8 *)

\* C8 as claimed: a body with presence_penalty v gives native option
\* presence_penalty = (v + 2) / 4, and the option is absent only when the
\* body has no presence_penalty field.
C8_PresencePenalty ==
    Translated =>
        IF "presence_penalty" \in DOMAIN inbound.fields
        THEN /\ "presence_penalty" \in DOMAIN Options
             /\ Options["presence_penalty"] =
                    RatDiv(RatAdd(inbound.fields["presence_penalty"], <<2, 1>>), <<4, 1>>)
        ELSE "presence_penalty" \notin DOMAIN Options

---------------------------------------------------------------------------
(* C9 *)

\* C9: a failed write on the underlying channel is returned by Write, and is
\* the last underlying write of that call: no retry, nothing further.  So a
\* done=true fragment whose data frame fails gets no DONE frame, and a failed
\* DONE write is returned.
C9_FailurePropagates ==
    \A i \in 1..Len(calls) :
        writer # <<>> =>
            \A k \in 1..Len(calls[i].attempts) :
                ~calls[i].attempts[k].ok =>
                    /\ k = Len(calls[i].attempts)
                    /\ calls[i].ret.err = <<"write failed">>
                    /\ IsDataFrame(calls[i].attempts[k].b) => calls[i].ret.n = Zero

\* a done=true fragment whose data frame failed, and one whose DONE failed
C9_Witness ==
    /\ Streaming
    /\ Len(calls) = 2
    /\ Parses(calls[1]) /\ Fragment(calls[1]).Done /\ calls[1].status = StatusOK
    /\ Len(calls[1].attempts) = 2
    /\ IsDoneFrame(calls[1].attempts[2].b)
    /\ ~calls[1].attempts[2].ok
    /\ calls[1].ret.err # <<>>
    /\ Parses(calls[2]) /\ Fragment(calls[2]).Done
    /\ Len(calls[2].attempts) = 1
    /\ IsDataFrame(calls[2].attempts[1].b)
    /\ ~calls[2].attempts[1].ok
    /\ calls[2].ret.err # <<>>

---------------------------------------------------------------------------
(* C10 *)

\* the vendor objects among the underlying writes: completions and chunks
VendorObject(b) ==
    IF IsCompletion(b) THEN <<b.v>>
    ELSE IF IsDataFrame(b) THEN <<b.v.v>>
    ELSE <<>>

\* the relay's id and streaming flag are those it was created with (the flag
\* is the request's), and every completion and every chunk written so far
\* carries the relay's id
OneId ==
    writer # <<>> =>
        /\ Len(writer[1].id) = 2 /\ writer[1].id[1] = "chatcmpl-" /\ writer[1].id[2] \in 0..998
        /\ Translated => writer[1].stream = req.Stream
        /\ \A i \in 1..Len(wire) :
               VendorObject(wire[i].b) # <<>> => VendorObject(wire[i].b)[1].Id = writer[1].id

\* no step after its creation changes the relay
RelayFixed == writer # <<>> => writer' = writer

\* C10: within one request the relay's id and streaming flag are fixed when
\* the relay is created and no Write (no step at all) changes them; every
\* vendor completion and chunk of the response carries the same id.
C10_OneId == []OneId /\ [][RelayFixed]_vars

\* three chunks of one response
C10_Witness ==
    /\ Streaming
    /\ Len(calls) = 3
    /\ Len(wire) >= 3
    /\ \A i \in 1..3 : VendorObject(wire[i].b) # <<>>
    /\ writer[1].id = <<"chatcmpl-", 1>>

====
